---- MODULE Spec2Model ----
(***************************************************************************)
(* Model of Dotunbey/feedback_os: the spreadsheet ingestion engine         *)
(* (src/seed_database.py) and the contact search / workspace-save          *)
(* endpoints (src/main.py).                                                *)
(*                                                                         *)
(* Text is modelled as a sequence of one-character strings, so that        *)
(* str.strip(), str.lower(), the '@' test and ILIKE substring matching are *)
(* computed character by character.  Python's None is the empty sequence   *)
(* (every place the code tests a text for None tests its truthiness, which *)
(* is false for the empty text too), and a NaN cell is the one-element     *)
(* sequence NaN.                                                           *)
(***************************************************************************)
EXTENDS Integers, Sequences, FiniteSets, TLC

VARIABLES
    contacts,           \* the store's contacts table: a set of records
    pc,                 \* position of seed_database: idle/fetch/sheet/rows/chunks
    runs,               \* number of seed_database runs started
    seen_emails,        \* seed_database: the identity set
    sheet_idx,          \* seed_database: number of sheets entered in this run
    row_idx,            \* seed_database: rows read of the current sheet
    records_to_insert,  \* seed_database: accepted records of the current sheet
    chunk_i,            \* seed_database: loop variable i of the batch insert
    last,               \* history: the row last read and what became of it
    fetched,            \* history: result of the run's existing-emails fetch
    accepted_run,       \* history: lower-cased emails accepted in this run
    chunk_log,          \* history: chunk writes attempted in this run
    user_contacts,      \* the store's user_contacts table: a set of links
    save_log,           \* history: outcomes of save_contact_to_workspace calls
    request,            \* the search request last served
    response            \* the search response last returned

vars == <<contacts, pc, runs, seen_emails, sheet_idx, row_idx,
          records_to_insert, chunk_i, last, fetched, accepted_run, chunk_log,
          user_contacts, save_log, request, response>>

ingestVars == <<pc, runs, seen_emails, sheet_idx, row_idx, records_to_insert,
                chunk_i, last, fetched, accepted_run, chunk_log>>
saveVars   == <<user_contacts, save_log>>
searchVars == <<request, response>>

-----------------------------------------------------------------------------
(* Bounds of the model. *)

MaxRuns   == 2      \* runs of seed_database
MaxSheets == 2      \* sheets of one workbook
MaxRows   == 2      \* rows of one sheet
MaxAccepted == 1200 \* rows of one sheet of a large workbook
MaxPage   == 2      \* page numbers asked of the search
MaxCount  == 230    \* rows the store may count for a search
MaxCalls  == 3      \* calls of save_contact_to_workspace

-----------------------------------------------------------------------------
(* Text. *)

Null == <<>>
NaN  == <<"NaN">>

Min(a, b) == IF a < b THEN a ELSE b

\* str.lower() on one character
LowerChar(c) ==
    CASE c = "A" -> "a" [] c = "B" -> "b" [] c = "C" -> "c" [] c = "D" -> "d"
      [] c = "E" -> "e" [] c = "F" -> "f" [] c = "G" -> "g" [] c = "H" -> "h"
      [] c = "I" -> "i" [] c = "J" -> "j" [] c = "K" -> "k" [] c = "L" -> "l"
      [] c = "M" -> "m" [] c = "N" -> "n" [] c = "O" -> "o" [] c = "P" -> "p"
      [] c = "Q" -> "q" [] c = "R" -> "r" [] c = "S" -> "s" [] c = "T" -> "t"
      [] c = "U" -> "u" [] c = "V" -> "v" [] c = "W" -> "w" [] c = "X" -> "x"
      [] c = "Y" -> "y" [] c = "Z" -> "z" [] OTHER -> c

\* str.lower()
Lower(s) == [k \in 1..Len(s) |-> LowerChar(s[k])]

\* str.strip(): leading and trailing blanks removed
RECURSIVE LStrip(_)
LStrip(s) == IF s # <<>> /\ Head(s) = " " THEN LStrip(Tail(s)) ELSE s
RECURSIVE RStrip(_)
RStrip(s) == IF s # <<>> /\ s[Len(s)] = " "
             THEN RStrip(SubSeq(s, 1, Len(s) - 1)) ELSE s
Strip(s) == RStrip(LStrip(s))

\* c in s
HasChar(s, c) == \E k \in 1..Len(s) : s[k] = c

\* t occurs in s as a contiguous substring
IsSubstring(t, s) ==
    \E k \in 0..(Len(s) - Len(t)) : SubSeq(s, k + 1, k + Len(t)) = t

-----------------------------------------------------------------------------
(* Header texts and cell texts. *)

H_Email        == <<"E","m","a","i","l">>
H_email        == <<"e","m","a","i","l">>
H_work_email   == <<"w","o","r","k","_","e","m","a","i","l">>
H_First_name   == <<"F","i","r","s","t"," ","n","a","m","e">>
H_first_name   == <<"f","i","r","s","t","_","n","a","m","e">>
H_Last_name    == <<"L","a","s","t"," ","n","a","m","e">>
H_last_name    == <<"l","a","s","t","_","n","a","m","e">>
H_Company_name == <<"C","o","m","p","a","n","y"," ","n","a","m","e">>
H_Company      == <<"C","o","m","p","a","n","y">>
H_organization == <<"o","r","g","a","n","i","z","a","t","i","o","n">>
H_LinkedIn     == <<"L","i","n","k","e","d","I","n">>
H_linkedin_url == <<"l","i","n","k","e","d","i","n","_","u","r","l">>
H_Industry     == <<"I","n","d","u","s","t","r","y">>
H_Country      == <<"C","o","m","p","a","n","y"," ","C","o","u","n","t","r","y">>
H_Title        == <<"T","i","t","l","e">>
H_Size         == <<"C","o","m","p","a","n","y"," ","S","i","z","e">>
H_original_sheet == <<"o","r","i","g","i","n","a","l","_","s","h","e","e","t">>

\* ContactCreate: the validation_alias of each field, in AliasChoices order
email_aliases        == <<H_Email, H_email, H_work_email>>
first_name_aliases   == <<H_First_name, H_first_name>>
last_name_aliases    == <<H_Last_name, H_last_name>>
company_name_aliases == <<H_Company_name, H_Company, H_organization>>
linkedin_url_aliases == <<H_LinkedIn, H_linkedin_url>>

Range(f) == {f[k] : k \in DOMAIN f}

AllAliases ==
    Range(email_aliases) \cup Range(first_name_aliases)
      \cup Range(last_name_aliases) \cup Range(company_name_aliases)
      \cup Range(linkedin_url_aliases)

\* seed_database: the keys kept out of custom_data
core_aliases ==
    {H_First_name, H_Last_name, H_Company_name, H_Company, H_Email, H_LinkedIn}

-----------------------------------------------------------------------------
(* ContactCreate (pydantic). *)

\* AliasChoices: the value under the first alias that is a key of d
RECURSIVE FirstAlias(_, _)
FirstAlias(d, aliases) ==
    IF aliases = <<>> THEN Null
    ELSE IF Head(aliases) \in DOMAIN d THEN d[Head(aliases)]
    ELSE FirstAlias(d, Tail(aliases))

AtPositions(s) == {k \in 1..Len(s) : s[k] = "@"}

\* the labels of a domain are non-empty: no leading, trailing or doubled dot
LabelsOk(dom) ==
    /\ dom # <<>>
    /\ Head(dom) # "."
    /\ dom[Len(dom)] # "."
    /\ \A k \in 1..(Len(dom) - 1) : ~(dom[k] = "." /\ dom[k + 1] = ".")

\* EmailStr: one "@", a non-empty local part, a dotted domain, no blank
EmailStrValid(s) ==
    /\ Cardinality(AtPositions(s)) = 1
    /\ ~HasChar(s, " ")
    /\ LET at == CHOOSE k \in AtPositions(s) : TRUE
           dom == SubSeq(s, at + 1, Len(s))
       IN  /\ at > 1
           /\ HasChar(dom, ".")
           /\ LabelsOk(dom)

\* EmailStr's value: the local part as written, the domain lower-cased
EmailStrNormalized(s) ==
    LET at == CHOOSE k \in AtPositions(s) : TRUE
    IN  SubSeq(s, 1, at) \o Lower(SubSeq(s, at + 1, Len(s)))

\* field_validator clean_strings (the NaN cell never reaches it as text)
clean_strings(v) == IF v = NaN \/ v = Null THEN Null ELSE Strip(v)

\* ContactCreate(**clean_dict): ok = FALSE stands for the ValidationError
ContactCreate(d) ==
    LET e == FirstAlias(d, email_aliases)
    IN  IF e = Null \/ ~EmailStrValid(e)
        THEN [ok |-> FALSE]
        ELSE [ok           |-> TRUE,
              email        |-> EmailStrNormalized(e),
              first_name   |-> clean_strings(FirstAlias(d, first_name_aliases)),
              last_name    |-> clean_strings(FirstAlias(d, last_name_aliases)),
              company_name |-> clean_strings(FirstAlias(d, company_name_aliases)),
              linkedin_url |-> FirstAlias(d, linkedin_url_aliases),
              owner_id     |-> Null,
              custom_data  |-> <<>>]

-----------------------------------------------------------------------------
(* The workbook: the rows a sheet may hold. *)

T_a_x_co   == <<"a","@","x",".","c","o">>
T_A_x_co   == <<"A","@","x",".","c","o">>
T_b_X_co   == <<"b","@","X",".","c","o">>
T_ax_co    == <<"a","x",".","c","o">>
T_a_x      == <<"a","@","x">>
T_blank    == <<" ">>
T_Ac       == <<"A","c">>
T_Bo       == <<" ","B","o">>
T_It       == <<"I","t">>

EmailHeaders == {H_Email, H_Email \o <<" ">>, H_email, H_work_email,
                 <<"E","M","A","I","L">>}
EmailCells   == {T_a_x_co, T_A_x_co, T_b_X_co, T_ax_co, T_a_x, T_blank, NaN}

\* the other columns of a row
ExtraColumns ==
    { <<>>,
      [h \in {H_organization} |-> T_Ac],
      [h \in {H_Company, H_Industry, H_first_name} |->
          IF h = H_Company THEN T_Ac ELSE IF h = H_Industry THEN T_It ELSE T_Bo],
      [h \in {H_email} |-> T_b_X_co] }

MkRow(h, v, x) == [k \in {h} \cup DOMAIN x |-> IF k = h THEN v ELSE x[k]]

\* a row has no email column, or an Email column of any content beside any
\* other columns, or an email column under any of the headers
Rows == ExtraColumns
          \cup {MkRow(H_Email, v, x) : v \in EmailCells, x \in ExtraColumns}
          \cup {MkRow(h, v, <<>>) : h \in EmailHeaders, v \in {T_a_x_co, T_ax_co}}

\* the rows that hold nothing but an Email column
KeyRows ==
    {MkRow(H_Email, v, <<>>) : v \in {T_a_x_co, T_A_x_co, T_b_X_co, T_ax_co, T_a_x}}

DigitChar(k) ==
    CASE k = 0 -> "0" [] k = 1 -> "1" [] k = 2 -> "2" [] k = 3 -> "3"
      [] k = 4 -> "4" [] k = 5 -> "5" [] k = 6 -> "6" [] k = 7 -> "7"
      [] k = 8 -> "8" [] OTHER -> "9"

\* the name of the k-th sheet of the workbook
SheetName(k) == <<"S", DigitChar(k)>>

-----------------------------------------------------------------------------
(* The store (Supabase): the contacts table. *)

GlobalContacts(store) == {c \in store : c.owner_id = Null}

\* insert(chunk): the table's unique email of the global partition rejects
\* the whole chunk
InsertRejected(store, chunk) ==
    LET new == {chunk[k].email : k \in 1..Len(chunk)}
    IN  \/ new \cap {c.email : c \in GlobalContacts(store)} # {}
        \/ Cardinality(new) < Len(chunk)

-----------------------------------------------------------------------------
(* seed_database. *)

chunk_size == 500

\* df.columns = df.columns.astype(str).str.strip()
StripColumns(row) ==
    [h \in {Strip(k) : k \in DOMAIN row} |->
        row[CHOOSE k \in DOMAIN row : Strip(k) = h]]

\* clean_dict: the cells that are neither NaN nor blank, stripped
CleanDict(row) ==
    LET cols == StripColumns(row)
        keep == {h \in DOMAIN cols : cols[h] # NaN /\ Strip(cols[h]) # <<>>}
    IN  [h \in keep |-> Strip(cols[h])]

\* raw_email = clean_dict.get('Email')
RawEmail(clean_dict) ==
    IF H_Email \in DOMAIN clean_dict THEN clean_dict[H_Email] ELSE Null

\* contact.custom_data, with the provenance key
CustomData(clean_dict, sheet_name) ==
    LET keys == (DOMAIN clean_dict \ core_aliases) \cup {H_original_sheet}
    IN  [k \in keys |-> IF k = H_original_sheet THEN sheet_name
                        ELSE clean_dict[k]]

\* contact.model_dump(by_alias=False)
ModelDump(contact, custom_data) ==
    [email        |-> contact.email,
     first_name   |-> contact.first_name,
     last_name    |-> contact.last_name,
     company_name |-> contact.company_name,
     linkedin_url |-> contact.linkedin_url,
     owner_id     |-> contact.owner_id,
     custom_data  |-> custom_data]

\* the body of the row loop: what becomes of one row
RowResult(row, seen, sheet_name) ==
    LET clean_dict  == CleanDict(row)
        raw_email   == RawEmail(clean_dict)
        clean_email == Lower(raw_email)
        contact     == ContactCreate(clean_dict)
    IN  IF raw_email = Null \/ ~HasChar(raw_email, "@")
        THEN [outcome |-> "invalid", clean_email |-> Null]
        ELSE IF clean_email \in seen
        THEN [outcome |-> "duplicate", clean_email |-> clean_email]
        ELSE IF ~contact.ok
        THEN [outcome |-> "error", clean_email |-> clean_email]
        ELSE [outcome |-> "accepted", clean_email |-> clean_email,
              record  |-> ModelDump(contact, CustomData(clean_dict, sheet_name))]

NoRow == [row |-> <<>>, outcome |-> "none", clean_email |-> Null]

\* lines 35-40: pd.read_excel raises, the run returns
ReadExcelFails ==
    /\ pc = "idle" /\ runs < MaxRuns
    /\ runs' = runs + 1
    /\ UNCHANGED <<contacts, pc, seen_emails, sheet_idx, row_idx,
                   records_to_insert, chunk_i, last, fetched, accepted_run,
                   chunk_log, saveVars, searchVars>>

\* lines 35-51: the workbook is read and the existing global emails fetched
StartRun ==
    /\ pc = "idle" /\ runs < MaxRuns
    /\ runs' = runs + 1
    /\ \E ok \in BOOLEAN :
          LET emails == IF ok THEN {c.email : c \in GlobalContacts(contacts)}
                        ELSE {}
          IN  /\ fetched' = [ok |-> ok, emails |-> emails]
              /\ seen_emails' = emails
    /\ pc' = "sheet"
    /\ sheet_idx' = 0 /\ row_idx' = 0 /\ chunk_i' = 0
    /\ records_to_insert' = <<>>
    /\ last' = NoRow
    /\ accepted_run' = {}
    /\ chunk_log' = <<>>
    /\ UNCHANGED <<contacts, saveVars, searchVars>>

\* lines 53-57: the next sheet of the workbook
BeginSheet ==
    /\ pc = "sheet" /\ sheet_idx < MaxSheets
    /\ sheet_idx' = sheet_idx + 1
    /\ row_idx' = 0
    /\ records_to_insert' = <<>>
    /\ pc' = "rows"
    /\ UNCHANGED <<contacts, runs, seen_emails, chunk_i, last, fetched,
                   accepted_run, chunk_log, saveVars, searchVars>>

\* line 53: the workbook has no further sheet, the run ends
EndRun ==
    /\ pc = "sheet"
    /\ pc' = "idle"
    /\ UNCHANGED <<contacts, runs, seen_emails, sheet_idx, row_idx,
                   records_to_insert, chunk_i, last, fetched, accepted_run,
                   chunk_log, saveVars, searchVars>>

\* ProcessRowOf with line 85 moved above the checks of line 68: the email of
\* every row that has one is put in the identity set
ProcessRowOf_MarksBeforeChecks(rows) ==
    /\ pc = "rows" /\ row_idx < MaxRows
    /\ \E row \in rows :
          LET r   == RowResult(row, seen_emails, SheetName(sheet_idx))
              raw == RawEmail(CleanDict(row))
              marked == IF raw = Null THEN seen_emails
                        ELSE seen_emails \cup {Lower(raw)}
          IN  /\ last' = [row |-> row, outcome |-> r.outcome,
                          clean_email |-> r.clean_email]
              /\ seen_emails' = marked
              /\ IF r.outcome = "accepted"
                 THEN /\ records_to_insert' = Append(records_to_insert, r.record)
                      /\ accepted_run' = accepted_run \cup {r.clean_email}
                 ELSE UNCHANGED <<records_to_insert, accepted_run>>
    /\ row_idx' = row_idx + 1
    /\ UNCHANGED <<contacts, pc, runs, sheet_idx, chunk_i, fetched, chunk_log,
                   saveVars, searchVars>>

\* ProcessRowOf with line 85 moved above the try of line 75: the email of a
\* row is put in the identity set before ContactCreate validates it
ProcessRowOf_MarksBeforeValidation(rows) ==
    /\ pc = "rows" /\ row_idx < MaxRows
    /\ \E row \in rows :
          LET r == RowResult(row, seen_emails, SheetName(sheet_idx))
          IN  /\ last' = [row |-> row, outcome |-> r.outcome,
                          clean_email |-> r.clean_email]
              /\ seen_emails' = IF r.outcome \in {"accepted", "error"}
                                THEN seen_emails \cup {r.clean_email}
                                ELSE seen_emails
              /\ IF r.outcome = "accepted"
                 THEN /\ records_to_insert' = Append(records_to_insert, r.record)
                      /\ accepted_run' = accepted_run \cup {r.clean_email}
                 ELSE UNCHANGED <<records_to_insert, accepted_run>>
    /\ row_idx' = row_idx + 1
    /\ UNCHANGED <<contacts, pc, runs, sheet_idx, chunk_i, fetched, chunk_log,
                   saveVars, searchVars>>

\* lines 59-88: one row of the sheet, drawn from the set rows
ProcessRowOf(rows) ==
    /\ pc = "rows" /\ row_idx < MaxRows
    /\ \E row \in rows :
          LET r == RowResult(row, seen_emails, SheetName(sheet_idx))
          IN  /\ last' = [row |-> row, outcome |-> r.outcome,
                          clean_email |-> r.clean_email]
              /\ IF r.outcome = "accepted"
                 THEN /\ records_to_insert' = Append(records_to_insert, r.record)
                      /\ seen_emails' = seen_emails \cup {r.clean_email}
                      /\ accepted_run' = accepted_run \cup {r.clean_email}
                 ELSE UNCHANGED <<records_to_insert, seen_emails, accepted_run>>
    /\ row_idx' = row_idx + 1
    /\ UNCHANGED <<contacts, pc, runs, sheet_idx, chunk_i, fetched, chunk_log,
                   saveVars, searchVars>>

\* a row of any shape
ProcessRow == ProcessRowOf(Rows)

\* a row that holds an Email column only
ProcessKeyRow == ProcessRowOf(KeyRows)

\* the k-th row of a large sheet: an Email column holding an address of its own
LargeSheetRow(sheet, k) ==
    MkRow(H_Email,
          <<"u", DigitChar(sheet), DigitChar((k \div 1000) % 10),
            DigitChar((k \div 100) % 10), DigitChar((k \div 10) % 10),
            DigitChar(k % 10), "@", "x", ".", "c", "o">>,
          <<>>)

\* the sizes of a large sheet: around the multiples of chunk_size
LargeSheetSizes ==
    {n \in 1..MaxAccepted :
        \/ n \in {1, MaxAccepted}
        \/ n % chunk_size \in {0, 1}}

\* lines 59-88 over a whole sheet of n rows with addresses of their own: the
\* row loop run to its end, every row accepted in its order
AcceptRows ==
    /\ pc = "rows" /\ row_idx = 0
    /\ \E n \in LargeSheetSizes :
          LET rec(k) == RowResult(LargeSheetRow(sheet_idx, k), seen_emails,
                                  SheetName(sheet_idx))
              new == {rec(k).clean_email : k \in 1..n}
          IN  /\ {k \in 1..n : rec(k).outcome # "accepted"} = {}
              /\ records_to_insert' = [k \in 1..n |-> rec(k).record]
              /\ seen_emails' = seen_emails \cup new
              /\ accepted_run' = accepted_run \cup new
              /\ row_idx' = n
    /\ UNCHANGED <<contacts, pc, runs, sheet_idx, chunk_i, last, fetched,
                   chunk_log, saveVars, searchVars>>

\* lines 59, 90-92: the sheet has no further row
EndRows ==
    /\ pc = "rows"
    /\ pc' = IF records_to_insert = <<>> THEN "sheet" ELSE "chunks"
    /\ chunk_i' = 0
    /\ last' = NoRow
    /\ UNCHANGED <<contacts, runs, seen_emails, sheet_idx, row_idx,
                   records_to_insert, fetched, accepted_run, chunk_log,
                   saveVars, searchVars>>

\* chunk = records_to_insert[i:i + chunk_size]
Chunk(records, i) == SubSeq(records, i + 1, Min(i + chunk_size, Len(records)))

\* WriteChunk with the loop left at the first failed write
WriteChunk_StopsOnFailure ==
    /\ pc = "chunks" /\ chunk_i < Len(records_to_insert)
    /\ LET chunk == Chunk(records_to_insert, chunk_i)
       IN  \E ok \in BOOLEAN :
              /\ ok => ~InsertRejected(contacts, chunk)
              /\ contacts' = IF ok THEN contacts \cup Range(chunk) ELSE contacts
              /\ chunk_log' = Append(chunk_log,
                     [sheet |-> sheet_idx, start |-> chunk_i,
                      chunk |-> chunk, ok |-> ok])
              /\ pc' = IF ok /\ chunk_i + chunk_size < Len(records_to_insert)
                       THEN "chunks" ELSE "sheet"
    /\ chunk_i' = chunk_i + chunk_size
    /\ UNCHANGED <<runs, seen_emails, sheet_idx, row_idx, records_to_insert,
                   last, fetched, accepted_run, saveVars, searchVars>>

\* lines 96-103: one iteration of the batch insert
WriteChunk ==
    /\ pc = "chunks" /\ chunk_i < Len(records_to_insert)
    /\ LET chunk == Chunk(records_to_insert, chunk_i)
       IN  \E ok \in BOOLEAN :
              /\ ok => ~InsertRejected(contacts, chunk)
              /\ contacts' = IF ok THEN contacts \cup Range(chunk) ELSE contacts
              /\ chunk_log' = Append(chunk_log,
                     [sheet |-> sheet_idx, start |-> chunk_i,
                      chunk |-> chunk, ok |-> ok])
    /\ chunk_i' = chunk_i + chunk_size
    /\ pc' = IF chunk_i + chunk_size < Len(records_to_insert)
             THEN "chunks" ELSE "sheet"
    /\ UNCHANGED <<runs, seen_emails, sheet_idx, row_idx, records_to_insert,
                   last, fetched, accepted_run, saveVars, searchVars>>

-----------------------------------------------------------------------------
(* The store (Supabase / PostgREST): filters of a select. *)

\* the text of column col of row c; a JSON key that is absent reads as NULL
ColumnValue(c, col) ==
    IF col.json
    THEN IF col.name \in DOMAIN c.custom_data THEN c.custom_data[col.name]
         ELSE Null
    ELSE CASE col.name = "owner_id"     -> c.owner_id
           [] col.name = "first_name"   -> c.first_name
           [] col.name = "last_name"    -> c.last_name
           [] col.name = "company_name" -> c.company_name
           [] col.name = "email"        -> c.email

\* text s matches the LIKE pattern p: "%" is any text, "_" any one character
RECURSIVE Like(_, _)
Like(p, s) ==
    IF p = <<>> THEN s = <<>>
    ELSE IF Head(p) = "%"
         THEN \E k \in 0..Len(s) : Like(Tail(p), SubSeq(s, k + 1, Len(s)))
    ELSE /\ s # <<>>
         /\ Head(p) = "_" \/ Head(p) = Head(s)
         /\ Like(Tail(p), Tail(s))

\* one comparison; a NULL column satisfies only "is null"
OpHolds(op, value, arg) ==
    CASE op = "is_null" -> value = Null
      [] op = "ilike"   -> value # Null /\ Like(Lower(arg), Lower(value))
      [] op = "eq"      -> value # Null /\ value = arg

\* a filter holds of a row when one of its columns satisfies the comparison
FilterHolds(c, f) ==
    \E k \in 1..Len(f.cols) : OpHolds(f.op, ColumnValue(c, f.cols[k]), f.arg)

\* the rows of the table that satisfy every filter of the query
Selected(store, filters) ==
    {c \in store : \A k \in 1..Len(filters) : FilterHolds(c, filters[k])}

\* range(start, end) of the selected rows: the table has no order of its own,
\* so a page is any set of as many rows as the range holds
PagesOf(rows, start_idx, end_idx) ==
    LET n    == Cardinality(rows)
        last_idx == Min(end_idx, n - 1)
        size == IF last_idx < start_idx THEN 0 ELSE last_idx - start_idx + 1
    IN  {d \in SUBSET rows : Cardinality(d) = size}

-----------------------------------------------------------------------------
(* search_global_contacts. *)

Core(name)    == [json |-> FALSE, name |-> name]
JsonKey(name) == [json |-> TRUE, name |-> name]

\* f"%{q}%"
Wrap(term) == <<"%">> \o term \o <<"%">>

FilterNames ==
    {"q", "industry", "country", "title", "company_size", "source_sheet"}

\* BuildQuery without the is_("owner_id", "null") of line 76
BuildQuery_AllPartitions(req) ==
    (IF req.q # Null
     THEN <<[cols |-> <<Core("first_name"), Core("last_name"),
                        Core("company_name"), Core("email")>>,
             op |-> "ilike", arg |-> Wrap(req.q)]>>
     ELSE <<>>)
    \o (IF req.industry # Null
        THEN <<[cols |-> <<JsonKey(H_Industry)>>, op |-> "ilike",
                arg |-> Wrap(req.industry)]>>
        ELSE <<>>)
    \o (IF req.country # Null
        THEN <<[cols |-> <<JsonKey(H_Country)>>, op |-> "ilike",
                arg |-> Wrap(req.country)]>>
        ELSE <<>>)
    \o (IF req.title # Null
        THEN <<[cols |-> <<JsonKey(H_Title)>>, op |-> "ilike",
                arg |-> Wrap(req.title)]>>
        ELSE <<>>)
    \o (IF req.company_size # Null
        THEN <<[cols |-> <<JsonKey(H_Size)>>, op |-> "eq",
                arg |-> req.company_size]>>
        ELSE <<>>)
    \o (IF req.source_sheet # Null
        THEN <<[cols |-> <<JsonKey(H_original_sheet)>>, op |-> "ilike",
                arg |-> Wrap(req.source_sheet)]>>
        ELSE <<>>)

\* lines 76-94: the filters the handler puts on the select
BuildQuery(req) ==
    <<[cols |-> <<Core("owner_id")>>, op |-> "is_null", arg |-> Null]>>
    \o (IF req.q # Null
        THEN <<[cols |-> <<Core("first_name"), Core("last_name"),
                           Core("company_name"), Core("email")>>,
                op |-> "ilike", arg |-> Wrap(req.q)]>>
        ELSE <<>>)
    \o (IF req.industry # Null
        THEN <<[cols |-> <<JsonKey(H_Industry)>>, op |-> "ilike",
                arg |-> Wrap(req.industry)]>>
        ELSE <<>>)
    \o (IF req.country # Null
        THEN <<[cols |-> <<JsonKey(H_Country)>>, op |-> "ilike",
                arg |-> Wrap(req.country)]>>
        ELSE <<>>)
    \o (IF req.title # Null
        THEN <<[cols |-> <<JsonKey(H_Title)>>, op |-> "ilike",
                arg |-> Wrap(req.title)]>>
        ELSE <<>>)
    \o (IF req.company_size # Null
        THEN <<[cols |-> <<JsonKey(H_Size)>>, op |-> "eq",
                arg |-> req.company_size]>>
        ELSE <<>>)
    \o (IF req.source_sheet # Null
        THEN <<[cols |-> <<JsonKey(H_original_sheet)>>, op |-> "ilike",
                arg |-> Wrap(req.source_sheet)]>>
        ELSE <<>>)

\* Ceil with the floor division a // b in place of math.ceil(a / b)
Ceil_Floor(a, b) == a \div b

\* math.ceil(a / b) for a >= 0, b > 0
Ceil(a, b) == IF a % b = 0 THEN a \div b ELSE a \div b + 1

\* lines 104-105
TotalPages(total_count, page_size) ==
    IF total_count > 0 THEN Ceil(total_count, page_size) ELSE 0

\* lines 104-113: the response built from what the store returned
PaginatedSearchResponse(data, count, page, page_size) ==
    LET total_count == IF count # 0 THEN count ELSE 0
    IN  [status      |-> 200,
         data        |-> data,
         total_count |-> total_count,
         page        |-> page,
         page_size   |-> page_size,
         total_pages |-> TotalPages(total_count, page_size)]

\* lines 115-116
SearchFailed == [status |-> 500, data |-> {}, total_count |-> 0, page |-> 0,
                 page_size |-> 0, total_pages |-> 0]

PageSizeMin == 1
PageSizeMax == 100

T_a  == <<"a">>
T_AC == <<"A","C">>
T_it == <<"i","t">>
T_Uk == <<"U","k">>
T_ce == <<"c","e">>
T_Ceo == <<"C","e","o">>
T_10 == <<"1","0">>
T_s1 == <<"s","1">>
T_li == <<"l","i">>

\* the query strings a client sends; has_url is a parameter the handler does
\* not declare, which FastAPI drops
Requests ==
    [q            : {Null, T_a, T_AC},
     industry     : {Null, T_it},
     country      : {Null, T_Uk},
     title        : {Null, T_ce},
     company_size : {Null, T_10},
     source_sheet : {Null, T_s1},
     page         : 1..MaxPage,
     page_size    : {PageSizeMin, 2, PageSizeMax},
     has_url      : {"unset", "true", "false"}]

\* lines 56-116: one call of the search endpoint
Search ==
    /\ \E req \in Requests :
          /\ request' = req
          /\ \/ response' = SearchFailed
             \/ LET rows      == Selected(contacts, BuildQuery(req))
                    start_idx == (req.page - 1) * req.page_size
                    end_idx   == start_idx + req.page_size - 1
                IN  \E data \in PagesOf(rows, start_idx, end_idx) :
                       response' = PaginatedSearchResponse(
                           data, Cardinality(rows), req.page, req.page_size)
    /\ UNCHANGED <<contacts, ingestVars, saveVars>>

\* lines 96-113 on a count of any size the store reports
SearchCounted ==
    /\ \E count \in 0..MaxCount, page \in 1..MaxPage,
          page_size \in PageSizeMin..PageSizeMax :
          /\ request' = [page |-> page, page_size |-> page_size, count |-> count]
          /\ response' = PaginatedSearchResponse({}, count, page, page_size)
    /\ UNCHANGED <<contacts, ingestVars, saveVars>>

\* the rows of a table the search runs on: records as seed_database writes
\* them, and a record owned by a tenant
SampleRows ==
    { [h \in {H_Email, H_Company, H_Industry, H_first_name} |->
          CASE h = H_Email -> T_a_x_co [] h = H_Company -> T_Ac
            [] h = H_Industry -> T_It [] OTHER -> T_Bo],
      [h \in {H_Email, H_LinkedIn, H_Country, H_Title, H_Size} |->
          CASE h = H_Email -> T_b_X_co [] h = H_LinkedIn -> T_li
            [] h = H_Country -> T_Uk [] h = H_Title -> T_Ceo
            [] OTHER -> T_10],
      [h \in {H_Email} |-> T_A_x_co] }

SampleContacts ==
    LET global == {RowResult(row, {}, SheetName(1)).record : row \in SampleRows}
        owned  == {c \in global : c.email = T_a_x_co}
    IN  global \cup {[c EXCEPT !.owner_id = <<"u","1">>] : c \in owned}

-----------------------------------------------------------------------------
(* The store: the user_contacts table, and save_contact_to_workspace. *)

ExistingUsers    == {"u1"}
ExistingContacts == {"c1", "c2"}
UserIds          == ExistingUsers \cup {"u9"}
ContactIds       == ExistingContacts \cup {"c9"}

\* the phrases the handler looks for in the text of an exception, and the
\* texts the store raises, as sequences of words
DuplicateKey ==
    <<"duplicate", "key", "value", "violates", "unique", "constraint">>
ForeignKey   == <<"violates", "foreign", "key", "constraint">>
DuplicateKeyError == DuplicateKey \o <<"user_contacts_user_id_contact_id_key">>
ForeignKeyError ==
    <<"insert", "or", "update", "on", "table", "user_contacts">>
       \o ForeignKey \o <<"user_contacts_contact_id_fkey">>
OtherError   == <<"connection", "reset">>

\* insert into user_contacts: what the store may answer. The foreign keys and
\* the unique (user_id, contact_id) decide the first three answers; any insert
\* may fail for a reason of the store's own. Null is the answer of a stored
\* row.
InsertLinkAnswers(links, user_id, contact_id) ==
    (IF user_id \notin ExistingUsers \/ contact_id \notin ExistingContacts
     THEN {ForeignKeyError}
     ELSE IF <<user_id, contact_id>> \in links THEN {DuplicateKeyError}
     ELSE {Null})
    \cup {OtherError}

\* SaveStatus with the unique-constraint error answered as a success
SaveStatus_DuplicateIsSuccess(error_msg) ==
    IF error_msg = Null \/ IsSubstring(DuplicateKey, error_msg) THEN 200
    ELSE IF IsSubstring(ForeignKey, error_msg) THEN 400
    ELSE 500

\* lines 153-177: the status the handler answers with; Null is no exception
SaveStatus(error_msg) ==
    IF error_msg = Null THEN 200
    ELSE IF IsSubstring(DuplicateKey, error_msg) THEN 409
    ELSE IF IsSubstring(ForeignKey, error_msg) THEN 400
    ELSE 500

\* lines 138-177: one call of the save endpoint
SaveContact ==
    /\ Len(save_log) < MaxCalls
    /\ \E user_id \in UserIds, contact_id \in ContactIds :
          \E answer \in InsertLinkAnswers(user_contacts, user_id, contact_id) :
             /\ user_contacts' =
                   IF answer = Null THEN user_contacts \cup {<<user_id, contact_id>>}
                   ELSE user_contacts
             /\ save_log' = Append(save_log,
                   [user_id |-> user_id, contact_id |-> contact_id,
                    status |-> SaveStatus(answer)])
    /\ UNCHANGED <<contacts, ingestVars, searchVars>>

InitIngest ==
    /\ contacts = {}
    /\ pc = "idle" /\ runs = 0
    /\ seen_emails = {}
    /\ sheet_idx = 0 /\ row_idx = 0 /\ chunk_i = 0
    /\ records_to_insert = <<>>
    /\ last = NoRow
    /\ fetched = [ok |-> FALSE, emails |-> {}]
    /\ accepted_run = {}
    /\ chunk_log = <<>>

InitSave == user_contacts = {} /\ save_log = <<>>

InitSearch == request = <<>> /\ response = <<>>

Init == InitIngest /\ InitSave /\ InitSearch

\* seed_database run again and again over workbooks of Email-only rows
Next ==
    \/ ReadExcelFails
    \/ StartRun
    \/ BeginSheet
    \/ EndRun
    \/ ProcessKeyRow
    \/ EndRows
    \/ WriteChunk

Spec == Init /\ [][Next]_vars

\* one run of seed_database over a one-sheet workbook of rows of any shape
NextRows ==
    \/ (runs = 0 /\ ReadExcelFails)
    \/ (runs = 0 /\ StartRun)
    \/ (sheet_idx = 0 /\ BeginSheet)
    \/ EndRun
    \/ ProcessRow
    \/ EndRows
    \/ WriteChunk

SpecRows == Init /\ [][NextRows]_vars

\* one run of seed_database over a workbook of at most two large sheets
NextBatch ==
    \/ (runs = 0 /\ StartRun)
    \/ (sheet_idx < 2 /\ BeginSheet)
    \/ EndRun
    \/ AcceptRows
    \/ EndRows
    \/ WriteChunk

SpecBatch == Init /\ [][NextBatch]_vars

\* searches of a table of contacts
InitSearchSpec ==
    /\ contacts \in SUBSET SampleContacts

    /\ pc = "idle" /\ runs = 0
    /\ seen_emails = {}
    /\ sheet_idx = 0 /\ row_idx = 0 /\ chunk_i = 0
    /\ records_to_insert = <<>>
    /\ last = NoRow
    /\ fetched = [ok |-> FALSE, emails |-> {}]
    /\ accepted_run = {}
    /\ chunk_log = <<>>
    /\ InitSave /\ InitSearch

\* one search of each table
NextSearch == request = <<>> /\ Search

SpecSearch == InitSearchSpec /\ [][NextSearch]_vars

\* calls of the save endpoint
SpecSave == Init /\ [][SaveContact]_vars

\* one response to a count of any size
NextPage == request = <<>> /\ SearchCounted

SpecPage == Init /\ [][NextPage]_vars

-----------------------------------------------------------------------------
(* Claims about seed_database. *)

LowerEmails(recs) == {Lower(r.email) : r \in recs}

\* the accepted records of the current sheet have lower-cased emails of their own
DistinctIgnoringCase(records) ==
    \A k, m \in 1..Len(records) :
        k # m => Lower(records[k].email) # Lower(records[m].email)

\* C1: in a run whose fetch of the existing emails succeeded, every record
\* accepted in the current sheet has a lower-cased email that differs from the
\* lower-cased email of every record of the global partition and of every other
\* accepted record; and no two global records have emails equal ignoring case.
C1_DedupIgnoresCase ==
    /\ (pc = "rows" /\ fetched.ok) =>
          /\ LowerEmails(Range(records_to_insert))
                \cap LowerEmails(GlobalContacts(contacts)) = {}
          /\ DistinctIgnoringCase(records_to_insert)
    /\ \A c, d \in GlobalContacts(contacts) :
          Lower(c.email) = Lower(d.email) => c = d

\* the chunk writes of the run logged for one sheet
SheetLog(sheet) == SelectSeq(chunk_log, LAMBDA e : e.sheet = sheet)

\* the chunks of a log, one after the other
RECURSIVE Concat(_)
Concat(log) == IF log = <<>> THEN <<>> ELSE Head(log).chunk \o Concat(Tail(log))

\* log holds exactly the chunk writes a sequence of n records calls for:
\* ceil(n / chunk_size) of them, contiguous, all but the last of chunk_size
ChunksOf(log, n) ==
    /\ Len(log) * chunk_size >= n
    /\ (Len(log) - 1) * chunk_size < n
    /\ (n = 0) = (log = <<>>)
    /\ \A j \in 1..Len(log) :
          /\ log[j].start = (j - 1) * chunk_size
          /\ Len(log[j].chunk) =
                IF j < Len(log) THEN chunk_size ELSE n - (j - 1) * chunk_size

\* C2 (as stated): once a run has ended, the chunk writes it attempted are the
\* ceil(N / 500) contiguous slices of the N records the run accepted, every
\* slice but the last of 500 records.
C2_ChunksPerRun ==
    (pc = "idle" /\ runs > 0) => ChunksOf(chunk_log, Cardinality(accepted_run))

\* C2 (amended): once the batch insert of a sheet has ended, the chunk writes
\* attempted for that sheet are the ceil(N / 500) contiguous, order-preserving
\* slices of the N records accepted from the sheet, each attempted once and
\* every slice but the last of 500 records, whichever of the writes failed.
C2_ChunksPerSheet ==
    (pc = "sheet" /\ sheet_idx > 0) =>
        /\ ChunksOf(SheetLog(sheet_idx), Len(records_to_insert))
        /\ Concat(SheetLog(sheet_idx)) = records_to_insert

\* 1200 records were written as chunks of 500, 500 and 200, the second write
\* failed and the third was attempted all the same
C2_Witness ==
    /\ pc = "sheet" /\ Len(records_to_insert) = 1200
    /\ LET log == SheetLog(sheet_idx)
       IN  /\ Len(log) = 3
           /\ Len(log[3].chunk) = 200
           /\ ~log[2].ok /\ log[3].ok

\* the header whose cell a field of ContactCreate takes: the first alias that
\* is a key of d
RECURSIVE ResolvedHeader(_, _)
ResolvedHeader(d, aliases) ==
    IF aliases = <<>> THEN Null
    ELSE IF Head(aliases) \in DOMAIN d THEN Head(aliases)
    ELSE ResolvedHeader(d, Tail(aliases))

AliasTables ==
    {email_aliases, first_name_aliases, last_name_aliases,
     company_name_aliases, linkedin_url_aliases}

\* the record accepted last
LastRecord == records_to_insert[Len(records_to_insert)]

\* C7: the custom_data of an accepted record holds no header of its row that
\* was resolved to a core slot.
C7_NoCoreKeyInCustomData ==
    last.outcome = "accepted" =>
        \A aliases \in AliasTables :
            ResolvedHeader(CleanDict(last.row), aliases)
               \notin DOMAIN LastRecord.custom_data

\* the email ContactCreate resolves for a row is missing, blank or has no "@"
BadResolvedEmail(row) ==
    LET e == FirstAlias(CleanDict(row), email_aliases)
    IN  e = Null \/ ~HasChar(e, "@")

\* C8: a step that reads a row whose resolved email is missing, blank or
\* without "@" rejects the row and leaves the batch, the identity set and the
\* store as they were.
C8_BadEmailRejected ==
    [][(row_idx' = row_idx + 1 /\ BadResolvedEmail(last'.row)) =>
          /\ last'.outcome \in {"invalid", "error"}
          /\ UNCHANGED <<records_to_insert, seen_emails, accepted_run, contacts>>
      ]_vars

\* a row with a company, an industry and a first name but no "@" in its email
\* was rejected while the batch already held a record
C8_Witness ==
    /\ last.outcome = "invalid"
    /\ H_Email \in DOMAIN last.row /\ last.row[H_Email] = T_ax_co
    /\ H_Company \in DOMAIN last.row
    /\ records_to_insert # <<>>

\* the headers of a row that are a configured email alias in some
\* capitalization, blanks around them ignored
EmailAliasHeaders(row) ==
    {h \in DOMAIN row :
        Lower(Strip(h)) \in {Lower(a) : a \in Range(email_aliases)}}

\* C9: a row that was read with a single email-alias header, in any
\* capitalization, over a well-formed email was accepted with that email in
\* the email slot, unless the email is a duplicate.
C9_AnyAliasAccepted ==
    (last.outcome # "none" /\ Cardinality(EmailAliasHeaders(last.row)) = 1) =>
        LET h == CHOOSE x \in EmailAliasHeaders(last.row) : TRUE
            v == Strip(last.row[h])
        IN  (last.row[h] # NaN /\ EmailStrValid(v)) =>
                \/ Lower(v) \in seen_emails /\ last.outcome = "duplicate"
                \/ /\ last.outcome = "accepted"
                   /\ LastRecord.email = EmailStrNormalized(v)

\* the lower-cased emails of the records of the run's failed chunk writes
FailedKeys ==
    UNION {LowerEmails(Range(chunk_log[j].chunk)) :
              j \in {k \in 1..Len(chunk_log) : ~chunk_log[k].ok}}

\* C10 (as stated): a row is dropped as a duplicate only if its lower-cased
\* email is that of a record of the global partition, or of a record accepted
\* earlier in the run whose chunk write has not failed.
C10_DroppedOnlyIfKept ==
    last.outcome = "duplicate" =>
        \/ last.clean_email \in LowerEmails(GlobalContacts(contacts))
        \/ last.clean_email \in accepted_run \ FailedKeys

\* C10 (amended): a row is dropped as a duplicate only if its lower-cased
\* email is one of the emails fetched from the global partition at the start
\* of the run or that of a record accepted earlier in the run, whether or not
\* that record's chunk write failed; and once the run has ended every accepted
\* email is stored or belongs to a chunk whose write was reported as failed.
C10_DroppedOnlyIfSeen ==
    /\ last.outcome = "duplicate" =>
          last.clean_email \in fetched.emails \cup accepted_run
    /\ (pc = "idle" /\ runs > 0) =>
          accepted_run \subseteq
              LowerEmails(GlobalContacts(contacts)) \cup FailedKeys

\* a row was dropped as a duplicate of a record whose chunk write had failed
C10_Witness ==
    /\ last.outcome = "duplicate"
    /\ last.clean_email \in FailedKeys
    /\ last.clean_email \notin LowerEmails(GlobalContacts(contacts))

-----------------------------------------------------------------------------
(* Claims about search_global_contacts. *)

\* C3: a search asked with has_url true returns only records that have a
\* professional-network URL, and one asked with has_url false only records
\* that have none.
C3_HasUrlFilter ==
    (request # <<>> /\ response.status = 200) =>
        /\ request.has_url = "true" =>
              \A c \in response.data : c.linkedin_url # Null
        /\ request.has_url = "false" =>
              \A c \in response.data : c.linkedin_url = Null

\* text v holds term t, letter case ignored
IContains(t, v) == v # Null /\ IsSubstring(Lower(t), Lower(v))

\* the text under key of the custom_data of c holds term t, case ignored
KeyContains(c, key, t) ==
    key \in DOMAIN c.custom_data /\ IContains(t, c.custom_data[key])

\* the records a request is meant to match: ownerless, and satisfying the
\* predicate of each filter that is present
Expected(store, req) ==
    {c \in store :
        /\ c.owner_id = Null
        /\ req.q # Null =>
              \/ IContains(req.q, c.first_name)
              \/ IContains(req.q, c.last_name)
              \/ IContains(req.q, c.company_name)
              \/ IContains(req.q, c.email)
        /\ req.industry # Null => KeyContains(c, H_Industry, req.industry)
        /\ req.country # Null => KeyContains(c, H_Country, req.country)
        /\ req.title # Null => KeyContains(c, H_Title, req.title)
        /\ req.company_size # Null =>
              /\ H_Size \in DOMAIN c.custom_data
              /\ c.custom_data[H_Size] = req.company_size
        /\ req.source_sheet # Null =>
              KeyContains(c, H_original_sheet, req.source_sheet)}

\* C5: the records a search selects are exactly the ownerless records that
\* satisfy the predicate of every filter present, q being a disjunction over
\* first name, last name, company name and email; the response counts and
\* returns only such records, and dropping any one filter never loses a match.
C5_ConjunctionOfActiveFilters ==
    (request # <<>> /\ response.status = 200) =>
        /\ Selected(contacts, BuildQuery(request)) = Expected(contacts, request)
        /\ response.total_count = Cardinality(Expected(contacts, request))
        /\ response.data \subseteq Expected(contacts, request)
        /\ \A c \in response.data : c.owner_id = Null
        /\ \A f \in FilterNames :
              Selected(contacts, BuildQuery(request))
                 \subseteq Selected(contacts,
                                    BuildQuery([request EXCEPT ![f] = Null]))

\* a search by q and industry matched a global record while the table also
\* held the same record owned by a tenant
C5_Witness ==
    /\ request # <<>> /\ response.status = 200
    /\ request.q = T_AC /\ request.industry = T_it
    /\ request.country = Null
    /\ response.total_count = 1
    /\ \E c \in contacts : c.owner_id # Null /\ c.company_name = T_Ac

\* C6: total_pages is the ceiling of total_count / page_size, and is 0 exactly
\* when total_count is 0.
C6_TotalPages ==
    (request # <<>> /\ response.status = 200) =>
        /\ response.total_count = request.count
        /\ response.total_pages * response.page_size >= response.total_count
        /\ (response.total_pages - 1) * response.page_size < response.total_count
        /\ (response.total_pages = 0) = (response.total_count = 0)

\* 201 rows in pages of 100 make 3 pages
C6_Witness ==
    /\ request # <<>>
    /\ response.total_count = 201 /\ response.page_size = 100
    /\ response.total_pages = 3

-----------------------------------------------------------------------------
(* Claims about save_contact_to_workspace. *)

ValidPair(e) ==
    e.user_id \in ExistingUsers /\ e.contact_id \in ExistingContacts

SamePair(e, f) == e.user_id = f.user_id /\ e.contact_id = f.contact_id

\* C4 (as stated): of the calls for an existing user and contact, the first of
\* a pair succeeds, every later one of the pair answers 409, and none ends in
\* the generic failure; the stored links are the pairs that succeeded.
C4_FirstSucceedsRestConflict ==
    /\ \A i \in 1..Len(save_log) :
          ValidPair(save_log[i]) =>
              LET later == \E j \in 1..(i - 1) : SamePair(save_log[j], save_log[i])
              IN  save_log[i].status = IF later THEN 409 ELSE 200
    /\ user_contacts =
          {<<save_log[i].user_id, save_log[i].contact_id>> :
              i \in {k \in 1..Len(save_log) : save_log[k].status = 200}}

\* C4 (amended): a call for an existing user and contact succeeds only if no
\* earlier call of its pair succeeded, so at most one call per pair succeeds;
\* a call made after a success of its pair answers 409, one made before any
\* success answers 200, and either answers the generic failure 500 instead
\* when the store fails for a reason of its own; the stored links are exactly
\* the pairs of the calls that succeeded, so no other call changes them.
C4_AtMostOneSuccess ==
    /\ \A i \in 1..Len(save_log) :
          ValidPair(save_log[i]) =>
              LET won == \E j \in 1..(i - 1) :
                            /\ SamePair(save_log[j], save_log[i])
                            /\ save_log[j].status = 200
              IN  save_log[i].status \in (IF won THEN {409, 500} ELSE {200, 500})
    /\ user_contacts =
          {<<save_log[i].user_id, save_log[i].contact_id>> :
              i \in {k \in 1..Len(save_log) : save_log[k].status = 200}}

\* the same pair was saved twice: one success, then one conflict
C4_Witness ==
    /\ Len(save_log) >= 2
    /\ SamePair(save_log[1], save_log[2])
    /\ save_log[1].status = 200 /\ save_log[2].status = 409

====
